---- MODULE Spec2Model ----
(***************************************************************************)
(* SlowFS I/O scheduler: the device context (seek heuristic, busy-until    *)
(* clock), its write-back cache and the Schedule front end.                *)
(*                                                                         *)
(* Time is counted in whole model time units from t0 (the instant of the   *)
(* zero-valued busyUntil); byte rates are bytes per time unit.  The        *)
(* 30-second logging counters of execute are left out: they are written    *)
(* and logged only, nothing the scheduler computes reads them.             *)
(***************************************************************************)
EXTENDS Integers, Sequences, FiniteSets, TLC

(* ---------------- bounds of the model ---------------- *)
\* largest request timestamp
MaxTime == 2
\* largest request offset
MaxStart == 1
\* largest request size
MaxSize == 1
\* Schedule is not called once busyUntil has passed MaxBusy
MaxBusy == 2
\* WRITE is not called once the cache holds more than MaxDirty dirty bytes
MaxDirty == 2

(* ---------------- request.go ---------------- *)
ReadRequest == 0
WriteRequest == 1
OpenRequest == 2
CloseRequest == 3
FsyncRequest == 4
AllocateRequest == 5
MetadataRequest == 6
\* any other RequestType value (String() prints "UNKNOWN")
UnknownRequest == 7

RequestTypes == ReadRequest..UnknownRequest

\* The files requests name, in ascending string order, and "", the path of a
\* request built without one.
SortedPaths == <<"", "a", "b">>
Paths == {SortedPaths[i] : i \in 1..Len(SortedPaths)}
Files == Paths \ {""}

\* computeTime and execute read Start and Size of READ, WRITE and ALLOCATE
\* requests only; the other kinds carry the zero values the adapter leaves.
DataRequestTypes == {ReadRequest, WriteRequest, AllocateRequest}

FileRequest ==
  [Type: DataRequestTypes, Timestamp: 0..MaxTime, Path: Files,
   Start: 0..MaxStart, Size: 0..MaxSize]
  \cup
  [Type: RequestTypes \ DataRequestTypes, Timestamp: 0..MaxTime, Path: Files,
   Start: {0}, Size: {0}]

\* The ALLOCATE and METADATA requests of the adapter name no path, and its
\* ALLOCATE no offset.
PathlessRequest ==
  [Type: {AllocateRequest}, Timestamp: 0..MaxTime, Path: {""},
   Start: {0}, Size: 0..MaxSize]
  \cup
  [Type: {MetadataRequest}, Timestamp: 0..MaxTime, Path: {""},
   Start: {0}, Size: {0}]

Request == FileRequest \cup PathlessRequest

(* ---------------- device configuration ---------------- *)
\* Validated configurations: durations >= 0, bandwidths > 0.  Without a seek
\* window the writes are simulated ones, which the window bears on as it does
\* on READ and ALLOCATE.
DeviceConfig ==
  {c \in [SeekWindow: {0, 2}, SeekTime: {1},
          ReadBytesPerSecond: {1}, WriteBytesPerSecond: {2},
          AllocateBytesPerSecond: {2}, MetadataOpTime: {1},
          FsyncStrategy: {"none", "dumb", "writeback"},
          WriteStrategy: {"fast", "simulate"}] :
     c.SeekWindow = 0 => c.WriteStrategy = "simulate"}

Min(a, b) == IF a <= b THEN a ELSE b

\* Duration of numBytes at bytesPerSecond, rounded half-to-even to a whole
\* time unit.
computeTimeFromThroughput(numBytes, bytesPerSecond) ==
  LET q == numBytes \div bytesPerSecond
      r == numBytes % bytesPerSecond
  IN  IF 2 * r < bytesPerSecond THEN q
      ELSE IF 2 * r > bytesPerSecond THEN q + 1
      ELSE IF q % 2 = 0 THEN q ELSE q + 1

ReadTime(config, numBytes) ==
  computeTimeFromThroughput(numBytes, config.ReadBytesPerSecond)

WriteTime(config, numBytes) ==
  computeTimeFromThroughput(numBytes, config.WriteBytesPerSecond)

AllocateTime(config, numBytes) ==
  computeTimeFromThroughput(numBytes, config.AllocateBytesPerSecond)

(* ---------------- write-back cache ---------------- *)
\* A cache is [exists |-> BOOLEAN, unwrittenBytes |-> [paths with an entry -> Nat]];
\* exists = FALSE is the nil pointer of a device without write-back fsync.
NoEntries == [p \in {} |-> 0]
NilCache == [exists |-> FALSE, unwrittenBytes |-> NoEntries]

newWriteBackCache == [exists |-> TRUE, unwrittenBytes |-> NoEntries]

getUnwrittenBytes(wbc, path) ==
  IF path \in DOMAIN wbc.unwrittenBytes THEN wbc.unwrittenBytes[path] ELSE 0

cacheWrite(wbc, path, n) ==
  [wbc EXCEPT !.unwrittenBytes =
     [p \in (DOMAIN wbc.unwrittenBytes) \cup {path} |->
        IF p = path THEN getUnwrittenBytes(wbc, path) + n
        ELSE wbc.unwrittenBytes[p]]]

writeBackFile(wbc, path) ==
  IF path \in DOMAIN wbc.unwrittenBytes
  THEN [wbc EXCEPT !.unwrittenBytes[path] = 0]
  ELSE wbc

cacheClose(wbc, path) ==
  [wbc EXCEPT !.unwrittenBytes =
     [p \in (DOMAIN wbc.unwrittenBytes) \ {path} |-> wbc.unwrittenBytes[p]]]

RECURSIVE sumBytes(_, _)
sumBytes(ub, S) ==
  IF S = {} THEN 0
  ELSE LET p == CHOOSE x \in S : TRUE
       IN  ub[p] + sumBytes(ub, S \ {p})

\* all dirty bytes of the cache
totalBytes(wbc) == sumBytes(wbc.unwrittenBytes, DOMAIN wbc.unwrittenBytes)

\* the mistaken variant that takes the budget from a dirty path without
\* looking at how many bytes it holds
RECURSIVE drainFromUnclamped(_, _, _)
drainFromUnclamped(ub, remaining, i) ==
  IF i > Len(SortedPaths) THEN ub
  ELSE LET p == SortedPaths[i]
       IN  IF p \in DOMAIN ub /\ ub[p] > 0
           THEN [ub EXCEPT ![p] = @ - remaining]
           ELSE drainFromUnclamped(ub, remaining, i + 1)

RECURSIVE drainFrom(_, _, _)
drainFrom(ub, remaining, i) ==
  IF i > Len(SortedPaths) THEN ub
  ELSE LET p == SortedPaths[i]
       IN  IF p \in DOMAIN ub
           THEN LET d == Min(ub[p], remaining)
                IN  drainFrom([ub EXCEPT ![p] = @ - d], remaining - d, i + 1)
           ELSE drainFrom(ub, remaining, i + 1)

writeBack(config, wbc, budget) ==
  [wbc EXCEPT !.unwrittenBytes =
     drainFrom(wbc.unwrittenBytes, config.WriteBytesPerSecond * budget, 1)]

(* ---------------- devicecontext.go ---------------- *)
newDeviceContext(config) ==
  [deviceConfig |-> config,
   firstUnseenByte |-> 0,
   lastAccessedFile |-> "",
   busyUntil |-> 0,
   writeBackCache |-> IF config.FsyncStrategy = "writeback"
                      THEN newWriteBackCache ELSE NilCache]

\* the mistaken variant that keeps the earlier instant
latestTimeSwapped(a, b) == IF a < b THEN a ELSE b

latestTime(a, b) == IF a > b THEN a ELSE b

\* the mistaken variant that lets an access a whole window ahead pass
computeSeekTimeBeyondWindow(dc, req) ==
  IF \/ dc.lastAccessedFile # req.Path
     \/ dc.firstUnseenByte > req.Start
     \/ req.Start - dc.firstUnseenByte > dc.deviceConfig.SeekWindow
  THEN dc.deviceConfig.SeekTime
  ELSE 0

\* the mistaken variant that also calls an access right at firstUnseenByte
\* a backward seek
computeSeekTimeOffByOne(dc, req) ==
  IF \/ dc.lastAccessedFile # req.Path
     \/ dc.firstUnseenByte >= req.Start
     \/ req.Start - dc.firstUnseenByte >= dc.deviceConfig.SeekWindow
  THEN dc.deviceConfig.SeekTime
  ELSE 0

computeSeekTime(dc, req) ==
  IF \/ dc.lastAccessedFile # req.Path
     \/ dc.firstUnseenByte > req.Start
     \/ req.Start - dc.firstUnseenByte >= dc.deviceConfig.SeekWindow
  THEN dc.deviceConfig.SeekTime
  ELSE 0

\* the mistaken variant that charges an fsync for the whole cache
fsyncDurationWholeCache(dc, req) ==
  CASE dc.deviceConfig.FsyncStrategy = "dumb" ->
         dc.deviceConfig.SeekTime * 10
    [] dc.deviceConfig.FsyncStrategy = "writeback" ->
         dc.deviceConfig.SeekTime +
         WriteTime(dc.deviceConfig, totalBytes(dc.writeBackCache))
    [] OTHER -> 0

\* computeTime, case FsyncRequest.
fsyncDuration(dc, req) ==
  CASE dc.deviceConfig.FsyncStrategy = "dumb" ->
         dc.deviceConfig.SeekTime * 10
    [] dc.deviceConfig.FsyncStrategy = "writeback" ->
         dc.deviceConfig.SeekTime +
         WriteTime(dc.deviceConfig,
                   getUnwrittenBytes(dc.writeBackCache, req.Path))
    [] OTHER -> 0

\* the mistaken variant that charges a write under every strategy
requestDurationChargesWrite(dc, req) ==
  CASE req.Type \in {MetadataRequest, CloseRequest} ->
         dc.deviceConfig.MetadataOpTime
    [] req.Type = AllocateRequest ->
         computeSeekTime(dc, req) + AllocateTime(dc.deviceConfig, req.Size)
    [] req.Type = ReadRequest ->
         computeSeekTime(dc, req) + ReadTime(dc.deviceConfig, req.Size)
    [] req.Type = WriteRequest ->
         computeSeekTime(dc, req) + WriteTime(dc.deviceConfig, req.Size)
    [] req.Type = FsyncRequest -> fsyncDuration(dc, req)
    [] OTHER -> 0

\* The switch of computeTime: the duration of the request itself.
requestDuration(dc, req) ==
  CASE req.Type \in {MetadataRequest, CloseRequest} ->
         dc.deviceConfig.MetadataOpTime
    [] req.Type = AllocateRequest ->
         computeSeekTime(dc, req) + AllocateTime(dc.deviceConfig, req.Size)
    [] req.Type = ReadRequest ->
         computeSeekTime(dc, req) + ReadTime(dc.deviceConfig, req.Size)
    [] req.Type = WriteRequest ->
         IF dc.deviceConfig.WriteStrategy = "simulate"
         THEN computeSeekTime(dc, req) + WriteTime(dc.deviceConfig, req.Size)
         ELSE 0
    [] req.Type = FsyncRequest -> fsyncDuration(dc, req)
    [] OTHER -> 0

\* the mistaken variant that forgets the wait for the busy device
computeTimeNoWait(dc, req) == requestDuration(dc, req)

computeTime(dc, req) ==
  (latestTime(dc.busyUntil, req.Timestamp) + requestDuration(dc, req))
    - req.Timestamp

\* the mistaken variant that takes the time since t0 for the spare time
drainSpareSinceStart(dc, req) ==
  LET spareTime == req.Timestamp - dc.busyUntil
  IN  IF spareTime > 0 /\ dc.writeBackCache.exists
      THEN [dc EXCEPT !.writeBackCache =
              writeBack(dc.deviceConfig, dc.writeBackCache, req.Timestamp)]
      ELSE dc

\* execute, first part: spare time goes to writing back the cache.
drainSpare(dc, req) ==
  LET spareTime == req.Timestamp - dc.busyUntil
  IN  IF spareTime > 0 /\ dc.writeBackCache.exists
      THEN [dc EXCEPT !.writeBackCache =
              writeBack(dc.deviceConfig, dc.writeBackCache, spareTime)]
      ELSE dc

\* the mistaken variant that starts the request at its timestamp although
\* the device is busy
advanceBusyFromTimestamp(dc, req) ==
  [dc EXCEPT !.busyUntil = req.Timestamp + requestDuration(dc, req)]

\* execute, second part: the device is busy until the request completes.
advanceBusy(dc, req) ==
  [dc EXCEPT !.busyUntil = req.Timestamp + computeTime(dc, req)]

\* the mistaken variant that forgets the offset
applyCloseKeepsOffset(dc, req) ==
  LET d == IF dc.writeBackCache.exists
           THEN [dc EXCEPT !.writeBackCache =
                   cacheClose(dc.writeBackCache, req.Path)]
           ELSE dc
  IN  IF d.lastAccessedFile = req.Path
      THEN [d EXCEPT !.lastAccessedFile = ""]
      ELSE d

\* the mistaken variant that writes the file back and keeps its cache entry
applyCloseWritesBack(dc, req) ==
  LET d == IF dc.writeBackCache.exists
           THEN [dc EXCEPT !.writeBackCache =
                   writeBackFile(dc.writeBackCache, req.Path)]
           ELSE dc
  IN  IF d.lastAccessedFile = req.Path
      THEN [d EXCEPT !.lastAccessedFile = "", !.firstUnseenByte = 0]
      ELSE d

\* execute, case CloseRequest.
applyClose(dc, req) ==
  LET d == IF dc.writeBackCache.exists
           THEN [dc EXCEPT !.writeBackCache =
                   cacheClose(dc.writeBackCache, req.Path)]
           ELSE dc
  IN  IF d.lastAccessedFile = req.Path
      THEN [d EXCEPT !.lastAccessedFile = "", !.firstUnseenByte = 0]
      ELSE d

\* the mistaken variant that takes the first byte read for the first unseen
applyReadTracksStart(dc, req) ==
  [dc EXCEPT !.lastAccessedFile = req.Path,
             !.firstUnseenByte = req.Start]

\* execute, case ReadRequest.
applyRead(dc, req) ==
  [dc EXCEPT !.lastAccessedFile = req.Path,
             !.firstUnseenByte = req.Start + req.Size]

\* the mistaken variant that tracks the write under every strategy
applyWriteAlwaysTracked(dc, req) ==
  LET d == [dc EXCEPT !.lastAccessedFile = req.Path,
                      !.firstUnseenByte = req.Start + req.Size]
  IN  IF d.writeBackCache.exists
      THEN [d EXCEPT !.writeBackCache =
              cacheWrite(d.writeBackCache, req.Path, req.Size)]
      ELSE d

\* execute, case WriteRequest.
applyWrite(dc, req) ==
  LET d == IF dc.deviceConfig.WriteStrategy = "simulate"
           THEN [dc EXCEPT !.lastAccessedFile = req.Path,
                           !.firstUnseenByte = req.Start + req.Size]
           ELSE dc
  IN  IF d.writeBackCache.exists
      THEN [d EXCEPT !.writeBackCache =
              cacheWrite(d.writeBackCache, req.Path, req.Size)]
      ELSE d

\* the mistaken variant that writes back every file of the cache
applyFsyncWholeCache(dc, req) ==
  IF dc.writeBackCache.exists
  THEN [dc EXCEPT !.writeBackCache.unwrittenBytes =
          [p \in DOMAIN dc.writeBackCache.unwrittenBytes |-> 0]]
  ELSE dc

\* execute, case FsyncRequest.
applyFsync(dc, req) ==
  IF dc.writeBackCache.exists
  THEN [dc EXCEPT !.writeBackCache =
          writeBackFile(dc.writeBackCache, req.Path)]
  ELSE dc

\* the mistaken variant that tracks an ALLOCATE as it tracks a READ
applyRequestAllocateTracked(dc, req) ==
  CASE req.Type = MetadataRequest -> dc
    [] req.Type = CloseRequest -> applyClose(dc, req)
    [] req.Type \in {ReadRequest, AllocateRequest} -> applyRead(dc, req)
    [] req.Type = WriteRequest -> applyWrite(dc, req)
    [] req.Type = FsyncRequest -> applyFsync(dc, req)
    [] OTHER -> dc

\* execute, third part: the switch on the request type.
applyRequest(dc, req) ==
  CASE req.Type \in {MetadataRequest, AllocateRequest} -> dc
    [] req.Type = CloseRequest -> applyClose(dc, req)
    [] req.Type = ReadRequest -> applyRead(dc, req)
    [] req.Type = WriteRequest -> applyWrite(dc, req)
    [] req.Type = FsyncRequest -> applyFsync(dc, req)
    [] OTHER -> dc

\* the mistaken variant that drains after the request has been applied
executeDrainsLast(dc, req) ==
  LET d == applyRequest(advanceBusy(dc, req), req)
  IN  [d EXCEPT !.writeBackCache =
         drainSpare([d EXCEPT !.busyUntil = dc.busyUntil], req).writeBackCache]

execute(dc, req) ==
  applyRequest(advanceBusy(drainSpare(dc, req), req), req)

(* ---------------- state ---------------- *)
VARIABLES
  dc,       \* the scheduler's deviceContext
  pc,       \* "idle", or "returned" right after a Schedule call
  req,      \* the request of that call
  opTime,   \* the duration that call returned
  pre,      \* the deviceContext as that call found it
  drained,  \* the write-back cache as execute's idle-time drain left it
  hist,     \* what the calls that returned earlier leave to compare with
  run,      \* the sequential reads of SpecLocality
  thr,      \* the adapter threads of SpecConc, each in its Schedule call
  lock,     \* the thread that holds the scheduler's lock, 0 for none
  ref,      \* SpecConc: the requests applied one by one in lock order
  now,      \* SpecAdapter: the clock that time.Now() reads
  handles,  \* SpecAdapter: the file handles handed out and not released
  op,       \* SpecAdapter: each adapter thread's file operation
  started,  \* SpecAdapter: the number of operations begun
  entered,  \* SpecAdapter: the timestamps that have entered Schedule's
            \* critical section
  main,     \* SpecMain: the command line, the device configs and the
            \* position of func main
  secure    \* SpecSecure: the backing directory, the mount and the
            \* positions of func main and of its signal goroutine

callVars == <<pc, req, opTime, pre, drained>>
concVars == <<thr, lock, ref>>
adapterVars == <<now, handles, op, started, entered>>
vars == <<dc, pc, req, opTime, pre, drained, hist, run, thr, lock, ref,
          now, handles, op, started, entered, main, secure>>

NoRequest == [Type |-> UnknownRequest, Timestamp |-> 0, Path |-> "",
              Start |-> 0, Size |-> 0]

\* The model stops calling Schedule beyond its bounds.
WithinBounds(d, r) ==
  /\ d.busyUntil <= MaxBusy
  /\ (r.Type = WriteRequest => totalBytes(d.writeBackCache) <= MaxDirty)

Max(a, b) == IF a >= b THEN a ELSE b

\* What hist keeps of the calls that have returned:
\*   latest         a request stamped MaxTime is among them (SpecOrder),
\*   maxCompletion  the latest Timestamp + returned duration (SpecCompletion),
\*   written[p]     the bytes written to p since its last FSYNC or CLOSE and
\*                  since the last idle-time drain (SpecFsync),
\*   residual[p]    the dirty bytes of p which that drain left behind
\*                  (SpecFsync),
\*   unused         writeBytesPerSecond x the time the device was idle (the
\*                  sum of the positive Timestamp - busyUntil), less the
\*                  bytes the idle-time drains wrote back (SpecIdle).
NoHistory ==
  [latest |-> FALSE, maxCompletion |-> 0,
   written |-> [p \in Paths |-> 0], residual |-> [p \in Paths |-> 0],
   unused |-> 0]

recordTimestamp(h, r) == [h EXCEPT !.latest = @ \/ r.Timestamp = MaxTime]

recordCompletion(h, r, t) ==
  [h EXCEPT !.maxCompletion = Max(@, r.Timestamp + t)]

recordBytes(h, r, before, afterDrain) ==
  LET h1 == IF r.Timestamp > before.busyUntil
            THEN [h EXCEPT !.written = [p \in Paths |-> 0],
                           !.residual = [p \in Paths |->
                                           getUnwrittenBytes(afterDrain, p)]]
            ELSE h
  IN  CASE r.Type = WriteRequest ->
             [h1 EXCEPT !.written[r.Path] = @ + r.Size]
        [] r.Type \in {FsyncRequest, CloseRequest} ->
             [h1 EXCEPT !.written[r.Path] = 0, !.residual[r.Path] = 0]
        [] OTHER -> h1

recordIdle(h, r, before, afterDrain) ==
  [h EXCEPT !.unused =
     @ + before.deviceConfig.WriteBytesPerSecond *
           Max(0, r.Timestamp - before.busyUntil)
       - (totalBytes(before.writeBackCache) - totalBytes(afterDrain))]

\* bounds of SpecLocality and SpecConc
MaxReads == 3
MaxInterleaved == 2
MaxWindow == 3
MaxThreads == 2
MaxCalls == 2

Threads == 1..MaxThreads

NoRun == [path |-> "", size |-> 0, n |-> 0, seeks |-> 0, interleaved |-> 0]

Resting == [pc |-> "idle", req |-> NoRequest, opTime |-> 0]

\* bound of SpecAdapter: the file operations begun
MaxOps == 2

\* A file handle: the file's path, and whether the handle is a slowFile
\* (wrapped) or the underlying file itself.
NoHandle == [path |-> "", wrapped |-> FALSE]

\* An adapter thread between two file operations.
NoOp ==
  [pc |-> "idle", kind |-> "none", handle |-> NoHandle, start |-> 0, status |-> "none", req |-> NoRequest, opTime |-> 0,
   wake |-> 0, calls |-> 0, steps |-> <<>>, seen |-> 0, moved |-> 0]

\* no request has entered the critical section
NoneEntered == [latest |-> 0, inOrder |-> TRUE]

\* func main is not part of the run: the scheduler is in use.
NoArgs == [file |-> [status |-> "none", entries |-> <<>>],
           configName |-> "hdd7200rpm",
           flag |-> [kind |-> "absent", value |-> 0]]

NoMain == [pc |-> "serving", args |-> NoArgs, configs |-> <<>>, next |-> 1,
           selected |-> "", flagsHadError |-> FALSE, fatal |-> "",
           scheduler |-> TRUE, mounted |-> TRUE]

\* secure mode off, the file system mounted and served
NoSecure == [secureMode |-> FALSE, sameDir |-> FALSE, empty |-> FALSE,
             original |-> "backing", atSecure |-> "absent",
             secureBackingDir |-> "", mounted |-> TRUE,
             mainPc |-> "serve", sigPc |-> "waiting", restored |-> 0]

\* The state after newScheduler(config), before any call.
Fresh(config) ==
  /\ dc = newDeviceContext(config)
  /\ pc = "idle"
  /\ req = NoRequest
  /\ opTime = 0
  /\ pre = dc
  /\ drained = dc.writeBackCache
  /\ hist = NoHistory
  /\ thr = [t \in Threads |-> Resting]
  /\ lock = 0
  /\ ref = [dc |-> dc, opTime |-> [t \in Threads |-> 0], calls |-> 0]
  /\ now = 0
  /\ handles = {}
  /\ op = [t \in Threads |-> NoOp]
  /\ started = 0
  /\ entered = NoneEntered
  /\ main = NoMain
  /\ secure = NoSecure

Init ==
  /\ \E config \in DeviceConfig : Fresh(config)
  /\ run = NoRun

\* Scheduler.Schedule: under the scheduler's lock, computeTime then execute.
ScheduleCall(r) ==
  /\ pc = "idle"
  /\ opTime' = computeTime(dc, r)
  /\ dc' = execute(dc, r)
  /\ req' = r
  /\ pre' = dc
  /\ drained' = drainSpare(dc, r).writeBackCache
  /\ pc' = "returned"
  /\ UNCHANGED hist
  /\ UNCHANGED concVars
  /\ UNCHANGED adapterVars
  /\ UNCHANGED <<main, secure>>

Schedule(r) == WithinBounds(dc, r) /\ ScheduleCall(r) /\ UNCHANGED run

\* The caller has taken the returned duration; the scheduler awaits the
\* next call.
Returned ==
  /\ pc = "returned"
  /\ pc' = "idle"
  /\ req' = NoRequest
  /\ opTime' = 0
  /\ pre' = dc
  /\ drained' = dc.writeBackCache
  /\ UNCHANGED <<dc, run>>
  /\ UNCHANGED concVars
  /\ UNCHANGED adapterVars
  /\ UNCHANGED <<main, secure>>

Return == Returned /\ UNCHANGED hist

ReturnOrdered == Returned /\ hist' = recordTimestamp(hist, req)

ReturnCompleted == Returned /\ hist' = recordCompletion(hist, req, opTime)

ReturnWritten == Returned /\ hist' = recordBytes(hist, req, pre, drained)

Next ==
  \/ \E r \in Request : Schedule(r)
  \/ Return

Spec == Init /\ [][Next]_vars

\* Spec with hist recording whether the latest timestamp has been used.
NextOrder ==
  \/ \E r \in Request : Schedule(r)
  \/ ReturnOrdered

SpecOrder == Init /\ [][NextOrder]_vars

\* Spec with hist recording the latest completion.
NextCompletion ==
  \/ \E r \in Request : Schedule(r)
  \/ ReturnCompleted

SpecCompletion == Init /\ [][NextCompletion]_vars

\* Devices with fast writes and write-back fsync, with hist recording the
\* bytes written and the bytes the idle-time drains left behind.
InitFsync ==
  /\ \E config \in DeviceConfig :
       /\ config.FsyncStrategy = "writeback"
       /\ config.WriteStrategy = "fast"
       /\ Fresh(config)
  /\ run = NoRun

NextFsync ==
  \/ \E r \in Request : Schedule(r)
  \/ ReturnWritten

SpecFsync == InitFsync /\ [][NextFsync]_vars

\* Devices with write-back fsync, with hist recording what the idle time
\* could have written back and the idle-time drains did not.
InitIdle ==
  /\ \E config \in DeviceConfig :
       /\ config.FsyncStrategy = "writeback"
       /\ Fresh(config)
  /\ run = NoRun

ReturnIdle == Returned /\ hist' = recordIdle(hist, req, pre, drained)

NextIdle ==
  \/ \E r \in Request : Schedule(r)
  \/ ReturnIdle

SpecIdle == InitIdle /\ [][NextIdle]_vars

(* ---------------- sequential reads of one file ---------------- *)
\* READs of run.size bytes of run.path at offsets 0, size, 2 x size, ... on a
\* fresh device, with METADATA and ALLOCATE requests in between; run.seeks
\* counts the reads that computeSeekTime charges a seek.
\* The reads meet no cache and no write strategy; the seek windows run from
\* 0 to MaxWindow.
LocalityConfig ==
  {[c EXCEPT !.SeekWindow = w] :
     c \in {d \in DeviceConfig : /\ d.FsyncStrategy = "none"
                                 /\ d.WriteStrategy = "simulate"
                                 /\ d.SeekWindow = 0},
     w \in 0..MaxWindow}

InitLocality ==
  /\ \E config \in LocalityConfig : Fresh(config)
  /\ \E p \in Paths, s \in 0..MaxSize : run = [NoRun EXCEPT !.path = p, !.size = s]

nextRead(ts) ==
  [Type |-> ReadRequest, Timestamp |-> ts, Path |-> run.path,
   Start |-> run.n * run.size, Size |-> run.size]

SequentialRead(ts) ==
  /\ run.n < MaxReads
  /\ ScheduleCall(nextRead(ts))
  /\ run' = [run EXCEPT !.n = @ + 1,
                        !.seeks = @ + (IF computeSeekTime(dc, nextRead(ts)) > 0
                                       THEN 1 ELSE 0)]

InterleavedRequest(r) ==
  /\ r.Type \in {MetadataRequest, AllocateRequest}
  /\ run.interleaved < MaxInterleaved
  /\ ScheduleCall(r)
  /\ run' = [run EXCEPT !.interleaved = @ + 1]

NextLocality ==
  \/ \E ts \in 0..MaxTime : SequentialRead(ts)
  \/ \E r \in Request : InterleavedRequest(r)
  \/ Return

SpecLocality == InitLocality /\ [][NextLocality]_vars

(* ---------------- concurrent callers of Schedule ---------------- *)
\* The requests the threads of SpecConc submit.
ConcRequest ==
  [Type: {ReadRequest, WriteRequest, FsyncRequest, MetadataRequest},
   Timestamp: {0, MaxTime}, Path: Files, Start: {0}, Size: {MaxSize}]

InitConc ==
  /\ \E config \in DeviceConfig :
       config.FsyncStrategy = "writeback" /\ Fresh(config)
  /\ run = NoRun

\* A thread of the adapter calls Schedule(r).
Call(t, r) ==
  /\ thr[t].pc \in {"idle", "done"}
  /\ ref.calls < MaxCalls
  /\ thr' = [thr EXCEPT ![t] = [pc |-> "waiting", req |-> r, opTime |-> 0]]
  /\ ref' = [ref EXCEPT !.calls = @ + 1]
  /\ UNCHANGED <<dc, hist, run, lock>>
  /\ UNCHANGED callVars
  /\ UNCHANGED adapterVars
  /\ UNCHANGED <<main, secure>>

\* the mistaken variant that does not wait for the lock
LockUnguarded(t) ==
  /\ thr[t].pc = "waiting"
  /\ lock' = t
  /\ thr' = [thr EXCEPT ![t].pc = "locked"]
  /\ ref' = [ref EXCEPT !.dc = execute(ref.dc, thr[t].req),
                        !.opTime[t] = computeTime(ref.dc, thr[t].req)]
  /\ UNCHANGED <<dc, hist, run>>
  /\ UNCHANGED callVars
  /\ UNCHANGED adapterVars
  /\ UNCHANGED <<main, secure>>

\* s.lock.Lock(): the thread enters the critical section.  ref applies the
\* request at this instant, in one piece.
Lock(t) ==
  /\ thr[t].pc = "waiting"
  /\ lock = 0
  /\ lock' = t
  /\ thr' = [thr EXCEPT ![t].pc = "locked"]
  /\ ref' = [ref EXCEPT !.dc = execute(ref.dc, thr[t].req),
                        !.opTime[t] = computeTime(ref.dc, thr[t].req)]
  /\ UNCHANGED <<dc, hist, run>>
  /\ UNCHANGED callVars
  /\ UNCHANGED adapterVars
  /\ UNCHANGED <<main, secure>>

\* the thread's computeTime
Compute(t) ==
  /\ thr[t].pc = "locked"
  /\ thr' = [thr EXCEPT ![t].pc = "computed",
                        ![t].opTime = computeTime(dc, thr[t].req)]
  /\ UNCHANGED <<dc, hist, run, lock, ref>>
  /\ UNCHANGED callVars
  /\ UNCHANGED adapterVars
  /\ UNCHANGED <<main, secure>>

\* the thread's execute
Execute(t) ==
  /\ thr[t].pc = "computed"
  /\ dc' = execute(dc, thr[t].req)
  /\ thr' = [thr EXCEPT ![t].pc = "executed"]
  /\ UNCHANGED <<hist, run, lock, ref>>
  /\ UNCHANGED callVars
  /\ UNCHANGED adapterVars
  /\ UNCHANGED <<main, secure>>

\* the deferred s.lock.Unlock() and the return of the duration
Unlock(t) ==
  /\ thr[t].pc = "executed"
  /\ lock' = 0
  /\ thr' = [thr EXCEPT ![t].pc = "done"]
  /\ UNCHANGED <<dc, hist, run, ref>>
  /\ UNCHANGED callVars
  /\ UNCHANGED adapterVars
  /\ UNCHANGED <<main, secure>>

NextConc ==
  \/ \E t \in Threads, r \in ConcRequest : Call(t, r)
  \/ \E t \in Threads : Lock(t)
  \/ \E t \in Threads : Compute(t)
  \/ \E t \in Threads : Execute(t)
  \/ \E t \in Threads : Unlock(t)

SpecConc == InitConc /\ [][NextConc]_vars

(* ---------------- func main: startup ---------------- *)
\* bound: the entries of the config file
MaxEntries == 2

\* the name of the built-in config and the names a config file can use
BuiltIn == "hdd7200rpm"
ConfigNames == {BuiltIn, "ssd", "tape"}

\* A device config as far as startup goes: its name and one bandwidth.
ConfigEntry == [Name: ConfigNames, ReadBytesPerSecond: 0..1]

\* slowfs.HDD7200RpmDeviceConfig
HDD7200RpmDeviceConfig == [Name |-> BuiltIn, ReadBytesPerSecond |-> 1]

\* The config file: not given, not readable, not parsable, or a list of
\* device configs.
ConfigFile ==
  {[status |-> st, entries |-> <<>>] : st \in {"none", "unreadable", "malformed"}}
  \cup {[status |-> "ok", entries |-> es] :
          es \in UNION {[1..n -> ConfigEntry] : n \in 0..MaxEntries}}

\* The flag read-bytes-per-second: not given, given with a value, or given
\* with a text that does not parse.
Flag ==
  {[kind |-> "absent", value |-> 0], [kind |-> "malformed", value |-> 0]}
  \cup {[kind |-> "value", value |-> v] : v \in 0..1}

Args == [file: ConfigFile, configName: ConfigNames, flag: Flag]

\* DeviceConfig.Validate: the bandwidths are positive.
Validate(c) == c.ReadBytesPerSecond > 0

\* the DeviceConfig of the scheduler's model for a validated config
deviceOf(c) ==
  [(CHOOSE d \in DeviceConfig : /\ d.FsyncStrategy = "none"
                                /\ d.WriteStrategy = "simulate"
                                /\ d.SeekWindow > 0)
     EXCEPT !.ReadBytesPerSecond = c.ReadBytesPerSecond]

\* the map m with key k set to v
put(m, k, v) ==
  [n \in (DOMAIN m) \cup {k} |-> IF n = k THEN v ELSE m[n]]

\* log.Fatalf
Fatalf(why) == main' = [main EXCEPT !.pc = "fatal", !.fatal = why]

\* func main begins with the built-in config in configs; no scheduler yet.
InitMain ==
  /\ \E a \in Args :
       main = [pc |-> "configFile", args |-> a,
               configs |-> put(<<>>, BuiltIn, HDD7200RpmDeviceConfig),
               next |-> 1, selected |-> "", flagsHadError |-> FALSE,
               fatal |-> "", scheduler |-> FALSE, mounted |-> FALSE]
  /\ dc = newDeviceContext(deviceOf(HDD7200RpmDeviceConfig))
  /\ pc = "idle"
  /\ req = NoRequest
  /\ opTime = 0
  /\ pre = dc
  /\ drained = dc.writeBackCache
  /\ hist = NoHistory
  /\ thr = [t \in Threads |-> Resting]
  /\ lock = 0
  /\ ref = [dc |-> dc, opTime |-> [t \in Threads |-> 0], calls |-> 0]
  /\ now = 0
  /\ handles = {}
  /\ op = [t \in Threads |-> NoOp]
  /\ started = 0
  /\ entered = NoneEntered
  /\ run = NoRun
  /\ secure = NoSecure

schedulerVars == <<dc, pc, req, opTime, pre, drained, hist, run, thr, lock, ref>>

\* os.ReadFile and ParseDeviceConfigsFromJSON
ReadConfigFile ==
  /\ main.pc = "configFile"
  /\ CASE main.args.file.status = "none" -> main' = [main EXCEPT !.pc = "select"]
       [] main.args.file.status = "unreadable" -> Fatalf("read")
       [] main.args.file.status = "malformed" -> Fatalf("parse")
       [] OTHER -> main' = [main EXCEPT !.pc = "load"]
  /\ UNCHANGED schedulerVars
  /\ UNCHANGED adapterVars
  /\ UNCHANGED secure

\* the mistaken variant that lets a later entry replace an earlier one
LoadEntryOverwrites ==
  /\ main.pc = "load"
  /\ IF main.next > Len(main.args.file.entries)
       THEN main' = [main EXCEPT !.pc = "select"]
       ELSE main' = [main EXCEPT
                       !.configs = put(main.configs,
                                       main.args.file.entries[main.next].Name,
                                       main.args.file.entries[main.next]),
                       !.next = @ + 1]
  /\ UNCHANGED schedulerVars
  /\ UNCHANGED adapterVars
  /\ UNCHANGED secure

\* One round of the loop over the parsed device configs.
LoadEntry ==
  /\ main.pc = "load"
  /\ IF main.next > Len(main.args.file.entries)
       THEN main' = [main EXCEPT !.pc = "select"]
       ELSE IF main.args.file.entries[main.next].Name \in DOMAIN main.configs
              THEN Fatalf("duplicate")
              ELSE main' = [main EXCEPT
                              !.configs = put(main.configs,
                                              main.args.file.entries[main.next].Name,
                                              main.args.file.entries[main.next]),
                              !.next = @ + 1]
  /\ UNCHANGED schedulerVars
  /\ UNCHANGED adapterVars
  /\ UNCHANGED secure

\* config, ok := configs[*configName]
SelectConfig ==
  /\ main.pc = "select"
  /\ IF main.args.configName \in DOMAIN main.configs
       THEN main' = [main EXCEPT !.pc = "flags",
                                 !.selected = main.args.configName]
       ELSE Fatalf("unknown")
  /\ UNCHANGED schedulerVars
  /\ UNCHANGED adapterVars
  /\ UNCHANGED secure

\* The override flags, written into the selected config; a flag that does
\* not parse leaves the parser's value there and is fatal after the last
\* flag.
ApplyFlags ==
  /\ main.pc = "flags"
  /\ CASE main.args.flag.kind = "absent" ->
            main' = [main EXCEPT !.pc = "validate"]
       [] main.args.flag.kind = "value" ->
            main' = [main EXCEPT
                       !.pc = "validate",
                       !.configs[main.selected].ReadBytesPerSecond =
                          main.args.flag.value]
       [] OTHER ->
            \E v \in 0..1 :
              main' = [main EXCEPT
                         !.pc = "fatal", !.fatal = "flags",
                         !.flagsHadError = TRUE,
                         !.configs[main.selected].ReadBytesPerSecond = v]
  /\ UNCHANGED schedulerVars
  /\ UNCHANGED adapterVars
  /\ UNCHANGED secure

\* the mistaken variant that does not validate
ValidateConfigSkipped ==
  /\ main.pc = "validate"
  /\ main' = [main EXCEPT !.pc = "new"]
  /\ UNCHANGED schedulerVars
  /\ UNCHANGED adapterVars
  /\ UNCHANGED secure

\* err = config.Validate()
ValidateConfig ==
  /\ main.pc = "validate"
  /\ IF Validate(main.configs[main.selected])
       THEN main' = [main EXCEPT !.pc = "new"]
       ELSE Fatalf("validate")
  /\ UNCHANGED schedulerVars
  /\ UNCHANGED adapterVars
  /\ UNCHANGED secure

\* Secure mode and the owner of the backing directory, which can fail; then
\* scheduler.New(config).
NewScheduler ==
  /\ main.pc = "new"
  /\ \/ /\ Fatalf("setup")
        /\ UNCHANGED dc
     \/ /\ main' = [main EXCEPT !.pc = "mount", !.scheduler = TRUE]
        /\ dc' = newDeviceContext(deviceOf(main.configs[main.selected]))
  /\ UNCHANGED <<pc, req, opTime, pre, drained, hist, run, thr, lock, ref>>
  /\ UNCHANGED adapterVars
  /\ UNCHANGED secure

\* nodefs.Mount
Mount ==
  /\ main.pc = "mount"
  /\ \/ Fatalf("mount")
     \/ main' = [main EXCEPT !.pc = "serving", !.mounted = TRUE]
  /\ UNCHANGED schedulerVars
  /\ UNCHANGED adapterVars
  /\ UNCHANGED secure

\* server.Serve(): the adapter's attribute operations reach the scheduler.
Serve(r) ==
  /\ main.pc = "serving"
  /\ r.Type = MetadataRequest
  /\ Schedule(r)

NextMain ==
  \/ ReadConfigFile
  \/ LoadEntry
  \/ SelectConfig
  \/ ApplyFlags
  \/ ValidateConfig
  \/ NewScheduler
  \/ Mount
  \/ \E r \in Request : Serve(r)
  \/ Return

SpecMain == InitMain /\ [][NextMain]_vars

(* ---------------- func main: secure mode and shutdown ---------------- *)
\* secure.original is what the path of the backing directory holds: the
\* backing directory, the empty mount point that MkdirAll makes, or nothing;
\* secure.atSecure is what the secure path holds: the backing directory,
\* nothing, or an entry that was there before ("stale").  secure.empty says
\* whether the backing directory has no entries.  secure.restored counts the
\* renames back to the original path.
Goroutines == {"main", "signal"}

\* the process runs: no log.Fatalf, no os.Exit, no return from func main
Alive ==
  /\ secure.mainPc \notin {"fatal", "exited"}
  /\ secure.sigPc # "exited"

at(g) == IF g = "main" THEN secure.mainPc ELSE secure.sigPc

goto(s, g, l) ==
  IF g = "main" THEN [s EXCEPT !.mainPc = l] ELSE [s EXCEPT !.sigPc = l]

\* os.Rename(securePath, originalPath): the source must exist, and the
\* target must not, unless it is an empty directory, which it replaces.
osRename(s) ==
  IF /\ s.atSecure # "absent"
     /\ \/ s.original \in {"absent", "mountpoint"}
        \/ s.original = "backing" /\ s.empty
  THEN [s EXCEPT !.original = s.atSecure, !.atSecure = "absent",
                 !.restored = @ + 1]
  ELSE s

\* os.Remove(mountPath) where the mount path is the original path: it
\* removes an empty directory that nothing is mounted on.
osRemove(s) ==
  IF /\ ~s.mounted
     /\ \/ s.original = "mountpoint"
        \/ s.original = "backing" /\ s.empty
  THEN [s EXCEPT !.original = "absent"]
  ELSE s

\* restoreFromSecureLocation, run by func main alone during startup
restoreFromSecureLocation(s) ==
  IF s.atSecure = "absent" THEN s
  ELSE IF s.original # "absent" THEN s
  ELSE osRename(s)

\* func main after config.Validate(): nothing moved, nothing mounted, the
\* signal goroutine not started.  The same directory may be given as backing
\* and as mount directory in secure mode only.
InitSecure ==
  /\ \E sm \in BOOLEAN, sd \in BOOLEAN, e \in BOOLEAN,
        st \in {"absent", "stale"} :
       /\ sd => sm
       /\ secure = [secureMode |-> sm, sameDir |-> sd, empty |-> e,
                    original |-> "backing", atSecure |-> st,
                    secureBackingDir |-> "", mounted |-> FALSE,
                    mainPc |-> "secureMode", sigPc |-> "none",
                    restored |-> 0]
  /\ main = NoMain
  /\ dc = newDeviceContext(deviceOf(HDD7200RpmDeviceConfig))
  /\ pc = "idle"
  /\ req = NoRequest
  /\ opTime = 0
  /\ pre = dc
  /\ drained = dc.writeBackCache
  /\ hist = NoHistory
  /\ thr = [t \in Threads |-> Resting]
  /\ lock = 0
  /\ ref = [dc |-> dc, opTime |-> [t \in Threads |-> 0], calls |-> 0]
  /\ now = 0
  /\ handles = {}
  /\ op = [t \in Threads |-> NoOp]
  /\ started = 0
  /\ entered = NoneEntered
  /\ run = NoRun

secureFrame ==
  /\ UNCHANGED schedulerVars
  /\ UNCHANGED adapterVars
  /\ UNCHANGED main

\* if *secureMode: moveToSecureLocation, which fails without root
\* privileges and when the secure path exists
MoveToSecureLocation ==
  /\ Alive
  /\ secure.mainPc = "secureMode"
  /\ IF ~secure.secureMode
       THEN secure' = [secure EXCEPT !.mainPc = "owner"]
       ELSE \/ secure' = [secure EXCEPT !.mainPc = "fatal"]
            \/ /\ secure.atSecure = "absent"
               /\ secure' = [secure EXCEPT
                               !.original = "absent",
                               !.atSecure = "backing",
                               !.secureBackingDir = "secure",
                               !.mainPc = IF secure.sameDir THEN "mkdir"
                                          ELSE "owner"]
  /\ secureFrame

\* os.MkdirAll(*mountDir): the mount point in place of the directory moved
\* away; on an error, restore and log.Fatalf
MkdirAll ==
  /\ Alive
  /\ secure.mainPc = "mkdir"
  /\ \/ secure' = [secure EXCEPT !.original = "mountpoint", !.mainPc = "owner"]
     \/ secure' = [restoreFromSecureLocation(secure) EXCEPT !.mainPc = "fatal"]
  /\ secureFrame

\* getDirectoryOwner(*backingDir); on an error, log.Fatalf
GetDirectoryOwner ==
  /\ Alive
  /\ secure.mainPc = "owner"
  /\ \/ secure' = [secure EXCEPT !.mainPc = "mount"]
     \/ secure' = [secure EXCEPT !.mainPc = "fatal"]
  /\ secureFrame

\* nodefs.Mount; on an error, restore in secure mode and log.Fatalf.  After
\* it the signal goroutine waits for a signal and func main serves.
NodefsMount ==
  /\ Alive
  /\ secure.mainPc = "mount"
  /\ \/ secure' = [secure EXCEPT !.mounted = TRUE, !.mainPc = "serve",
                                 !.sigPc = "waiting"]
     \/ secure' = [(IF secure.secureMode /\ secure.secureBackingDir # ""
                    THEN restoreFromSecureLocation(secure) ELSE secure)
                     EXCEPT !.mainPc = "fatal"]
  /\ secureFrame

\* the file system is unmounted from outside while it is served
ExternalUnmount ==
  /\ Alive
  /\ secure.mainPc = "serve"
  /\ secure.mounted
  /\ secure' = [secure EXCEPT !.mounted = FALSE]
  /\ secureFrame

\* server.Serve() returns once the file system is unmounted; cleanup follows
ServeReturns ==
  /\ Alive
  /\ secure.mainPc = "serve"
  /\ ~secure.mounted
  /\ secure' = [secure EXCEPT !.mainPc = "unmount"]
  /\ secureFrame

\* sig := <-sigChan; cleanup follows
Signal ==
  /\ Alive
  /\ secure.sigPc = "waiting"
  /\ secure' = [secure EXCEPT !.sigPc = "unmount"]
  /\ secureFrame

\* cleanup: server.Unmount(), taken to succeed
Unmount(g) ==
  /\ Alive
  /\ at(g) = "unmount"
  /\ secure' =
       goto([secure EXCEPT !.mounted = FALSE], g,
            IF secure.secureMode /\ secure.secureBackingDir # ""
            THEN IF secure.sameDir THEN "remove" ELSE "statSecure"
            ELSE "done")
  /\ secureFrame

\* cleanup: os.Remove(mountPath) when the mount path is the original path
RemoveMountPoint(g) ==
  /\ Alive
  /\ at(g) = "remove"
  /\ secure' = goto(osRemove(secure), g, "statSecure")
  /\ secureFrame

\* restoreFromSecureLocation: os.Stat(securePath)
StatSecure(g) ==
  /\ Alive
  /\ at(g) = "statSecure"
  /\ secure' = goto(secure, g, IF secure.atSecure = "absent" THEN "done"
                               ELSE "statOriginal")
  /\ secureFrame

\* restoreFromSecureLocation: os.Stat(originalPath)
StatOriginal(g) ==
  /\ Alive
  /\ at(g) = "statOriginal"
  /\ secure' = goto(secure, g, IF secure.original # "absent" THEN "done"
                               ELSE "rename")
  /\ secureFrame

\* restoreFromSecureLocation: os.Rename(securePath, originalPath)
Rename(g) ==
  /\ Alive
  /\ at(g) = "rename"
  /\ secure' = goto(osRename(secure), g, "done")
  /\ secureFrame

\* cleanup has returned: func main returns, the signal goroutine calls
\* os.Exit(0); either ends the process.
Exit(g) ==
  /\ Alive
  /\ at(g) = "done"
  /\ secure' = goto(secure, g, "exited")
  /\ secureFrame

NextSecure ==
  \/ MoveToSecureLocation
  \/ MkdirAll
  \/ GetDirectoryOwner
  \/ NodefsMount
  \/ ExternalUnmount
  \/ ServeReturns
  \/ Signal
  \/ \E g \in Goroutines : Unmount(g)
  \/ \E g \in Goroutines : RemoveMountPoint(g)
  \/ \E g \in Goroutines : StatSecure(g)
  \/ \E g \in Goroutines : StatOriginal(g)
  \/ \E g \in Goroutines : Rename(g)
  \/ \E g \in Goroutines : Exit(g)

SpecSecure == InitSecure /\ [][NextSecure]_vars

(* ---------------- fuselayer.go: the adapter ---------------- *)
\* The operations on a file handle and the operations on a name; getattr
\* stands for the attribute and directory operations, which differ in the
\* underlying call only.
HandleKinds == {"read", "write", "fsync", "allocate", "release"}
NameKinds == {"open", "create", "getattr"}

\* the names the operations of SpecAdapter are about
AdapterFiles == Files

\* Release and StatFs have no status to fail with.
CanFail(kind) == kind # "release"

\* The Request the adapter builds after the underlying operation has
\* transferred n bytes.
requestOf(o, n) ==
  CASE o.kind = "read" ->
         [Type |-> ReadRequest, Timestamp |-> o.start, Path |-> o.handle.path,
          Start |-> o.off, Size |-> n]
    [] o.kind = "write" ->
         [Type |-> WriteRequest, Timestamp |-> o.start, Path |-> o.handle.path,
          Start |-> o.off, Size |-> n]
    [] o.kind = "release" ->
         [Type |-> CloseRequest, Timestamp |-> o.start, Path |-> o.handle.path,
          Start |-> 0, Size |-> 0]
    [] o.kind = "fsync" ->
         [Type |-> FsyncRequest, Timestamp |-> o.start, Path |-> o.handle.path,
          Start |-> 0, Size |-> 0]
    [] o.kind = "allocate" ->
         [Type |-> AllocateRequest, Timestamp |-> o.start, Path |-> "",
          Start |-> 0, Size |-> n]
    [] OTHER ->
         [Type |-> MetadataRequest, Timestamp |-> o.start, Path |-> "",
          Start |-> 0, Size |-> 0]

\* the bytes an operation can transfer
transfers(kind) ==
  IF kind \in {"read", "write", "allocate"} THEN 0..MaxSize ELSE {0}

InitAdapter ==
  /\ \E config \in DeviceConfig : Fresh(config)
  /\ run = NoRun

otherVars ==
  <<pc, req, opTime, pre, drained, hist, run, thr, ref, main, secure>>

\* start := time.Now()
sampleStart(clock) == clock

\* The thread is between two operations.
Idle(t) == op[t].pc = "idle"

\* The thread that takes the next operation: the threads are interchangeable,
\* and the idle thread of the lowest number stands for them all.
Free(t) == Idle(t) /\ \A u \in 1..(t - 1) : ~Idle(u)

\* No operation has just returned: what a returned operation leaves in op is
\* cleared (Finish) before anything else happens.
Settled == \A t \in Threads : op[t].pc # "returned"

\* no thread is at work on handle h
Unused(h) == \A u \in Threads : Idle(u) \/ op[u].handle # h

\* the operation kind on the name or handle h may begin
MayBegin(kind, h) ==
  \/ kind \in NameKinds /\ h.path \in AdapterFiles /\ h.wrapped
  \/ kind \in HandleKinds /\ h \in handles /\ h.wrapped /\ Unused(h)

\* A thread enters an operation of the adapter, start := time.Now(), and the
\* underlying operation fails: the adapter returns its status at once.
FailOp(t, kind, h) ==
  /\ Settled
  /\ Free(t)
  /\ started < MaxOps
  /\ MayBegin(kind, h)
  /\ CanFail(kind)
  /\ op' = [op EXCEPT ![t] = [NoOp EXCEPT !.pc = "returned", !.kind = kind,
                                          !.handle = h,
                                          !.start = sampleStart(now),
                                          !.status = "error", !.wake = now,
                                          !.steps = <<"start", "perform",
                                                      "return">>,
                                          !.seen = entered.latest]]
  /\ started' = started + 1
  /\ UNCHANGED <<dc, lock, now, handles, entered>>
  /\ UNCHANGED otherVars

\* A thread enters an operation of the adapter, start := time.Now(), and the
\* underlying operation succeeds, having transferred n bytes; the adapter
\* builds the Request and calls Schedule.
StartOp(t, kind, h, n) ==
  /\ Settled
  /\ Free(t)
  /\ started < MaxOps
  /\ MayBegin(kind, h)
  /\ n \in transfers(kind)
  /\ op' = [op EXCEPT ![t] =
              [NoOp EXCEPT !.pc = "waiting", !.kind = kind, !.handle = h,
                           !.start = sampleStart(now), !.status = "OK",
                           !.req = requestOf([kind |-> kind, handle |-> h,
                                              off |-> 0,
                                              start |-> sampleStart(now)], n),
                           !.steps = <<"start", "perform">>,
                           !.seen = entered.latest, !.moved = n]]
  /\ handles' = IF kind = "release" THEN handles \ {h} ELSE handles
  /\ started' = started + 1
  /\ UNCHANGED <<dc, lock, now, entered>>
  /\ UNCHANGED otherVars

\* An operation on a handle that Create handed out: the handle is the
\* underlying file, whose method runs without the adapter.
Passthrough(t, kind, h) ==
  /\ Settled
  /\ Free(t)
  /\ started < MaxOps
  /\ kind \in HandleKinds
  /\ h \in handles
  /\ ~h.wrapped
  /\ Unused(h)
  /\ op' = [op EXCEPT ![t] = [NoOp EXCEPT !.pc = "returned", !.kind = kind,
                                          !.handle = h, !.status = "OK",
                                          !.wake = now,
                                          !.steps = <<"perform", "return">>]]
  /\ handles' = IF kind = "release" THEN handles \ {h} ELSE handles
  /\ started' = started + 1
  /\ UNCHANGED <<dc, lock, now, entered>>
  /\ UNCHANGED otherVars

\* Schedule: s.lock.Lock().
AdapterLock(t) ==
  /\ Settled
  /\ op[t].pc = "waiting"
  /\ lock = 0
  /\ lock' = t
  /\ op' = [op EXCEPT ![t].pc = "locked"]
  /\ entered' = [latest |-> Max(entered.latest, op[t].req.Timestamp),
                 inOrder |-> /\ entered.inOrder
                             /\ op[t].req.Timestamp >= entered.latest]
  /\ UNCHANGED <<dc, now, handles, started>>
  /\ UNCHANGED otherVars

\* Schedule: computeTime and execute under the lock, then the unlock and the
\* return of the duration.
AdapterSchedule(t) ==
  /\ Settled
  /\ op[t].pc = "locked"
  /\ dc' = execute(dc, op[t].req)
  /\ lock' = 0
  /\ op' = [op EXCEPT ![t].pc = "scheduled",
                       ![t].opTime = computeTime(dc, op[t].req),
                       ![t].calls = @ + 1,
                       ![t].steps = Append(@, "schedule")]
  /\ UNCHANGED <<now, handles, started, entered>>
  /\ UNCHANGED otherVars

\* the mistaken variant that does not sleep
sleepUntilNow(clock, start, t) == clock

\* time.Sleep(opTime - time.Since(start)) returns at this instant or later.
sleepUntil(clock, start, t) == clock + Max(0, t - (clock - start))

\* the mistaken variant that goes to sleep inside the critical section
SleepLocked(t) ==
  /\ Settled
  /\ op[t].pc = "locked"
  /\ dc' = execute(dc, op[t].req)
  /\ op' = [op EXCEPT ![t].pc = "sleeping",
                       ![t].opTime = computeTime(dc, op[t].req),
                       ![t].calls = @ + 1,
                       ![t].wake = sleepUntil(now, op[t].start,
                                              computeTime(dc, op[t].req)),
                       ![t].steps = @ \o <<"schedule", "sleep">>]
  /\ UNCHANGED <<lock, now, handles, started, entered>>
  /\ UNCHANGED otherVars

\* The thread goes to sleep, its call of Schedule having returned.
Sleep(t) ==
  /\ Settled
  /\ op[t].pc = "scheduled"
  /\ op' = [op EXCEPT ![t].pc = "sleeping",
                       ![t].wake = sleepUntil(now, op[t].start, op[t].opTime),
                       ![t].steps = Append(@, "sleep")]
  /\ UNCHANGED <<dc, lock, now, handles, started, entered>>
  /\ UNCHANGED otherVars

\* The sleep is over and the operation returns; Open returns a slowFile
\* around the underlying file, Create the underlying file itself.
ReturnOp(t) ==
  /\ Settled
  /\ op[t].pc = "sleeping"
  /\ now >= op[t].wake
  /\ op' = [op EXCEPT ![t].pc = "returned", ![t].wake = now,
                       ![t].steps = Append(@, "return")]
  /\ handles' =
       CASE op[t].kind = "open" ->
              handles \cup {[path |-> op[t].handle.path, wrapped |-> TRUE]}
         [] op[t].kind = "create" ->
              handles \cup {[path |-> op[t].handle.path, wrapped |-> FALSE]}
         [] OTHER -> handles
  /\ UNCHANGED <<dc, lock, now, started, entered>>
  /\ UNCHANGED otherVars

\* The thread is free for its next operation.
Finish(t) ==
  /\ op[t].pc = "returned"
  /\ op' = [op EXCEPT ![t] = NoOp]
  /\ UNCHANGED <<dc, lock, now, handles, started, entered>>
  /\ UNCHANGED otherVars

\* the mistaken variant with a wall clock, which may be set back
TickWallClock ==
  /\ Settled
  /\ \/ now < MaxTime /\ started < MaxOps
     \/ \E t \in Threads : op[t].pc = "sleeping" /\ op[t].wake > now
  /\ now' \in {now + 1, Max(0, now - 1)}
  /\ UNCHANGED <<dc, lock, handles, op, started, entered>>
  /\ UNCHANGED otherVars

\* Time passes, for as long as an operation may begin or a thread sleeps;
\* time.Now() carries a monotonic clock reading.
Tick ==
  /\ Settled
  /\ \/ now < MaxTime /\ started < MaxOps
     \/ \E t \in Threads : op[t].pc = "sleeping" /\ op[t].wake > now
  /\ now' = now + 1
  /\ UNCHANGED <<dc, lock, handles, op, started, entered>>
  /\ UNCHANGED otherVars

\* no operation is under way
Alone == \A t \in Threads : Idle(t)

\* The operations of every kind, one at a time.
NextAdapter ==
  \/ \E t \in Threads, kind \in HandleKinds \cup NameKinds,
        h \in handles \cup {[path |-> p, wrapped |-> TRUE] : p \in AdapterFiles} :
        /\ Alone
        /\ \/ FailOp(t, kind, h)
           \/ \E n \in 0..MaxSize : StartOp(t, kind, h, n)
  \/ \E t \in Threads, kind \in HandleKinds, h \in handles :
        Alone /\ Passthrough(t, kind, h)
  \/ \E t \in Threads : AdapterLock(t)
  \/ \E t \in Threads : AdapterSchedule(t)
  \/ \E t \in Threads : Sleep(t)
  \/ \E t \in Threads : ReturnOp(t)
  \/ \E t \in Threads : Finish(t)
  \/ Tick

SpecAdapter == InitAdapter /\ [][NextAdapter]_vars

\* SpecAdapter with threads that keep running and a clock that keeps going.
FairAdapter ==
  /\ SpecAdapter
  /\ \A t \in Threads :
       WF_vars(AdapterLock(t) \/ AdapterSchedule(t) \/ Sleep(t) \/ ReturnOp(t))
  /\ WF_vars(Tick)

\* the operations of SpecRace: the attribute operations on one name
RaceKinds == {"getattr"}
RaceFiles == {"a"}

\* The devices of SpecRace: the attribute operations meet no cache and no
\* write strategy.
InitRace ==
  /\ \E config \in DeviceConfig :
       /\ config.FsyncStrategy = "none"
       /\ config.WriteStrategy = "simulate"
       /\ Fresh(config)
  /\ run = NoRun

\* Attribute operations of several threads at once.
NextRace ==
  \/ \E t \in Threads, kind \in RaceKinds, p \in RaceFiles :
        StartOp(t, kind, [path |-> p, wrapped |-> TRUE], 0)
  \/ \E t \in Threads : AdapterLock(t)
  \/ \E t \in Threads : AdapterSchedule(t)
  \/ \E t \in Threads : Sleep(t)
  \/ \E t \in Threads : ReturnOp(t)
  \/ \E t \in Threads : Finish(t)
  \/ Tick

SpecRace == InitRace /\ [][NextRace]_vars

(* ---------------- properties ---------------- *)
\* A Schedule call has just returned: req, opTime, pre and drained describe it.
Called == pc = "returned"

\* the time the call's request came after the device fell idle (<= 0: busy)
spare == req.Timestamp - pre.busyUntil

\* the time the request waits for the busy device
wait == IF pre.busyUntil > req.Timestamp
        THEN pre.busyUntil - req.Timestamp ELSE 0

\* C1: the duration Schedule returns is never negative, whatever the order
\* of the timestamps.
NonNegativeDelay == Called => opTime >= 0

\* a request stamped before the instant the device is busy until
NonNegativeDelayWitness ==
  /\ Called
  /\ req.Timestamp < pre.busyUntil
  /\ opTime > 0

\* C2: busyUntil after a request is never before busyUntil before it.
BusyUntilNeverDecreases == Called => dc.busyUntil >= pre.busyUntil

\* a request stamped before an earlier request
BusyUntilNeverDecreasesWitness ==
  /\ Called
  /\ hist.latest
  /\ req.Timestamp < MaxTime
  /\ dc.busyUntil > pre.busyUntil

\* C3: the returned duration is the duration of the request itself when the
\* device is free at the request's timestamp, and the remaining busy time
\* plus that duration when it is not.
DelayIsWaitPlusDuration ==
  Called =>
    /\ pre.busyUntil <= req.Timestamp => opTime = requestDuration(pre, req)
    /\ pre.busyUntil > req.Timestamp =>
         opTime = (pre.busyUntil - req.Timestamp) + requestDuration(pre, req)
    /\ pre = newDeviceContext(pre.deviceConfig) =>
         opTime = requestDuration(pre, req)

\* a request with a duration of its own that finds the device busy
DelayIsWaitPlusDurationWitness ==
  /\ Called
  /\ pre.busyUntil > req.Timestamp
  /\ requestDuration(pre, req) > 0
  /\ opTime > requestDuration(pre, req)

\* C5: a request completes, by its timestamp plus the returned duration, no
\* earlier than every request scheduled before it.
CompletionRespectsLockOrder ==
  Called => hist.maxCompletion <= req.Timestamp + opTime

\* C7: under the fast write strategy a WRITE leaves lastAccessedFile and
\* firstUnseenByte alone and, with a write-back cache, adds its size to the
\* dirty bytes of its path (as the idle-time drain left them).
FastWriteKeepsSequentiality ==
  (Called /\ req.Type = WriteRequest /\ pre.deviceConfig.WriteStrategy = "fast")
  =>
    /\ dc.lastAccessedFile = pre.lastAccessedFile
    /\ dc.firstUnseenByte = pre.firstUnseenByte
    /\ pre.writeBackCache.exists =>
         /\ req.Path \in DOMAIN dc.writeBackCache.unwrittenBytes
         /\ \A p \in Paths :
              getUnwrittenBytes(dc.writeBackCache, p) =
                getUnwrittenBytes(drained, p) +
                (IF p = req.Path THEN req.Size ELSE 0)

\* a fast write of some bytes to a file other than the tracked one
FastWriteKeepsSequentialityWitness ==
  /\ Called
  /\ req.Type = WriteRequest
  /\ pre.deviceConfig.WriteStrategy = "fast"
  /\ pre.writeBackCache.exists
  /\ req.Size > 0
  /\ req.Start + req.Size # pre.firstUnseenByte
  /\ pre.lastAccessedFile # req.Path
  /\ getUnwrittenBytes(pre.writeBackCache, req.Path) > 0

\* C8: after CLOSE of a path the cache has no entry for it, the CLOSE costs
\* metadataOpTime whatever was dirty, and a CLOSE of the tracked file resets
\* lastAccessedFile and firstUnseenByte.
CloseDropsPath ==
  (Called /\ req.Type = CloseRequest) =>
    /\ req.Path \notin DOMAIN dc.writeBackCache.unwrittenBytes
    /\ getUnwrittenBytes(dc.writeBackCache, req.Path) = 0
    /\ opTime = wait + pre.deviceConfig.MetadataOpTime
    /\ pre.lastAccessedFile = req.Path =>
         (dc.lastAccessedFile = "" /\ dc.firstUnseenByte = 0)

\* a CLOSE of the tracked file, read past offset 0, with dirty bytes left
CloseDropsPathWitness ==
  /\ Called
  /\ req.Type = CloseRequest
  /\ pre.lastAccessedFile = req.Path
  /\ pre.firstUnseenByte > 0
  /\ getUnwrittenBytes(drained, req.Path) > 0

\* C9 as stated: with fast writes and write-back fsync, an FSYNC that follows
\* writes to its path with no idle time since them is charged seekTime plus
\* the write time of the bytes written to the path since its last FSYNC,
\* CLOSE or drain.
FsyncChargesBytesSinceDrain ==
  (/\ Called
   /\ req.Type = FsyncRequest
   /\ pre.deviceConfig.FsyncStrategy = "writeback"
   /\ pre.deviceConfig.WriteStrategy = "fast"
   /\ spare <= 0
   /\ hist.written[req.Path] > 0)
  => opTime = wait + pre.deviceConfig.SeekTime +
              WriteTime(pre.deviceConfig, hist.written[req.Path])

\* C9, amended: the FSYNC is charged seekTime plus the write time of the
\* bytes written to the path since its last FSYNC, CLOSE or drain together
\* with the dirty bytes that drain left behind; afterwards the path has no
\* unwritten bytes and a next FSYNC of it is charged seekTime alone.
FsyncChargesDirtyBytes ==
  (/\ Called
   /\ req.Type = FsyncRequest
   /\ pre.deviceConfig.FsyncStrategy = "writeback"
   /\ pre.deviceConfig.WriteStrategy = "fast"
   /\ spare <= 0)
  =>
    /\ opTime = wait + pre.deviceConfig.SeekTime +
                WriteTime(pre.deviceConfig,
                          hist.residual[req.Path] + hist.written[req.Path])
    /\ getUnwrittenBytes(dc.writeBackCache, req.Path) = 0
    /\ fsyncDuration(dc, req) = pre.deviceConfig.SeekTime

\* an FSYNC charged for bytes written after a drain and bytes that drain left
FsyncChargesDirtyBytesWitness ==
  /\ Called
  /\ req.Type = FsyncRequest
  /\ pre.deviceConfig.FsyncStrategy = "writeback"
  /\ pre.deviceConfig.WriteStrategy = "fast"
  /\ spare <= 0
  /\ hist.written[req.Path] > 0
  /\ hist.residual[req.Path] > 0
  /\ opTime > wait + pre.deviceConfig.SeekTime

\* C10: an idle-time writeBack drains min(all dirty bytes, writeBytesPerSecond
\* x spare time) bytes, takes from no path more than it has, and leaves no
\* more dirty bytes than it found.
DrainWithinBudget ==
  (Called /\ pre.writeBackCache.exists /\ spare > 0) =>
    /\ DOMAIN drained.unwrittenBytes = DOMAIN pre.writeBackCache.unwrittenBytes
    /\ totalBytes(pre.writeBackCache) - totalBytes(drained) =
         Min(totalBytes(pre.writeBackCache),
             pre.deviceConfig.WriteBytesPerSecond * spare)
    /\ \A p \in DOMAIN drained.unwrittenBytes :
         /\ drained.unwrittenBytes[p] >= 0
         /\ drained.unwrittenBytes[p] <= pre.writeBackCache.unwrittenBytes[p]
    /\ totalBytes(drained) <= totalBytes(pre.writeBackCache)

\* a drain whose budget runs out with dirty bytes of two paths involved
DrainWithinBudgetWitness ==
  /\ Called
  /\ pre.writeBackCache.exists
  /\ spare > 0
  /\ totalBytes(drained) > 0
  /\ totalBytes(drained) < totalBytes(pre.writeBackCache)
  /\ \E p, q \in DOMAIN drained.unwrittenBytes :
       /\ p # q
       /\ pre.writeBackCache.unwrittenBytes[p] > 0
       /\ pre.writeBackCache.unwrittenBytes[q] > 0

\* The CLOSE that has just returned, called once more at timestamp ts.
closedAgain(ts) == execute(dc, [req EXCEPT !.Timestamp = ts])

\* C11 as stated: a second CLOSE of the path leaves the device context,
\* busyUntil included, as the first CLOSE left it.
CloseTwiceSameContext ==
  (Called /\ req.Type = CloseRequest) =>
    \A ts \in 0..MaxTime : closedAgain(ts) = dc

\* C11, amended: a second CLOSE of the path leaves lastAccessedFile and
\* firstUnseenByte as the first left them and the path without a cache entry;
\* it takes no dirty bytes from another path unless it comes after idle time,
\* gives none, and moves busyUntil on by metadataOpTime.
CloseTwiceSameTracking ==
  (Called /\ req.Type = CloseRequest) =>
    \A ts \in 0..MaxTime :
      /\ closedAgain(ts).lastAccessedFile = dc.lastAccessedFile
      /\ closedAgain(ts).firstUnseenByte = dc.firstUnseenByte
      /\ closedAgain(ts).deviceConfig = dc.deviceConfig
      /\ closedAgain(ts).writeBackCache.exists = dc.writeBackCache.exists
      /\ req.Path \notin DOMAIN closedAgain(ts).writeBackCache.unwrittenBytes
      /\ DOMAIN closedAgain(ts).writeBackCache.unwrittenBytes =
           DOMAIN dc.writeBackCache.unwrittenBytes
      /\ \A p \in Paths :
           /\ getUnwrittenBytes(closedAgain(ts).writeBackCache, p) <=
                getUnwrittenBytes(dc.writeBackCache, p)
           /\ ts <= dc.busyUntil =>
                getUnwrittenBytes(closedAgain(ts).writeBackCache, p) =
                  getUnwrittenBytes(dc.writeBackCache, p)
      /\ closedAgain(ts).busyUntil =
           Max(dc.busyUntil, ts) + dc.deviceConfig.MetadataOpTime

\* a CLOSE of a file with dirty bytes, while another file has dirty bytes
\* that idle time before a second CLOSE drains
CloseTwiceSameTrackingWitness ==
  /\ Called
  /\ req.Type = CloseRequest
  /\ getUnwrittenBytes(drained, req.Path) > 0
  /\ \E ts \in 0..MaxTime :
       totalBytes(closedAgain(ts).writeBackCache) < totalBytes(dc.writeBackCache)

\* A READ or a simulated WRITE: the requests that move the tracked position.
tracksAccess(d, r) ==
  \/ r.Type = ReadRequest
  \/ r.Type = WriteRequest /\ d.deviceConfig.WriteStrategy = "simulate"

\* the dirty bytes of file A are as the idle-time drain left them
sameDirtyBytes(A) ==
  /\ (A \in DOMAIN dc.writeBackCache.unwrittenBytes) =
       (A \in DOMAIN drained.unwrittenBytes)
  /\ getUnwrittenBytes(dc.writeBackCache, A) = getUnwrittenBytes(drained, A)

\* C12 as stated: a request against another path changes neither the dirty
\* bytes of file A (the idle-time drain apart) nor the position tracked for A.
PathIndependence ==
  Called =>
    \A A \in Files \ {req.Path} :
      /\ sameDirtyBytes(A)
      /\ pre.lastAccessedFile = A =>
           /\ dc.lastAccessedFile = A
           /\ dc.firstUnseenByte = pre.firstUnseenByte

\* C12, amended: a request against another path leaves the dirty bytes of
\* file A as the idle-time drain left them; the position tracked for A is
\* taken over by a READ or simulated WRITE of the other path and left alone
\* by every other request.
DirtyBytesPathIndependent ==
  Called =>
    \A A \in Files \ {req.Path} :
      /\ sameDirtyBytes(A)
      /\ pre.lastAccessedFile = A =>
           IF tracksAccess(pre, req)
           THEN /\ dc.lastAccessedFile = req.Path
                /\ dc.firstUnseenByte = req.Start + req.Size
           ELSE /\ dc.lastAccessedFile = A
                /\ dc.firstUnseenByte = pre.firstUnseenByte

\* an FSYNC of a file with dirty bytes while the tracked file has dirty
\* bytes too
DirtyBytesPathIndependentWitness ==
  /\ Called
  /\ req.Type = FsyncRequest
  /\ getUnwrittenBytes(drained, req.Path) > 0
  /\ \E A \in Files \ {req.Path} :
       /\ pre.lastAccessedFile = A
       /\ pre.firstUnseenByte > 0
       /\ getUnwrittenBytes(drained, A) > 0

\* C16: a request of unknown kind is a no-op: Schedule returns 0 for it and
\* the device context is as the call found it.
UnknownIsNoOp ==
  (Called /\ req.Type = UnknownRequest) => (opTime = 0 /\ dc = pre)

\* C6 as stated: sequential reads of one file that stay within seekWindow
\* seek exactly once in total.
SequentialReadsSeekOnce ==
  (run.n >= 1 /\ run.n * run.size <= dc.deviceConfig.SeekWindow)
  => run.seeks = 1

\* C6, amended: they do when seekWindow > 0 and the path is not empty; the
\* seek is that of the first read.
SequentialReadsSeekOnceInWindow ==
  (/\ run.n >= 1
   /\ run.n * run.size <= dc.deviceConfig.SeekWindow
   /\ dc.deviceConfig.SeekWindow > 0
   /\ run.path # "")
  => run.seeks = 1

\* two reads of a whole window, with other requests in between
SequentialReadsSeekOnceWitness ==
  /\ run.n >= 2
  /\ run.size >= 1
  /\ run.n * run.size = dc.deviceConfig.SeekWindow
  /\ run.path # ""
  /\ run.interleaved > 0
  /\ pre.lastAccessedFile = run.path
  /\ req.Type = AllocateRequest
  /\ run.seeks = 1

\* C4: callers of Schedule exclude one another from computeTime to execute,
\* and the durations they get and the device context they leave are those of
\* the requests applied one at a time in the order of the lock.
inCriticalSection(t) == thr[t].pc \in {"locked", "computed", "executed"}

Linearizable ==
  /\ \A t, u \in Threads : (inCriticalSection(t) /\ inCriticalSection(u)) => t = u
  /\ \A t \in Threads : inCriticalSection(t) => lock = t
  /\ \A t \in Threads :
       thr[t].pc \in {"computed", "executed", "done"} => thr[t].opTime = ref.opTime[t]
  /\ lock = 0 => dc = ref.dc

\* all calls made; one thread had to wait for the lock behind another's request
LinearizableWitness ==
  /\ ref.calls = MaxCalls
  /\ \A t \in Threads : thr[t].pc = "done"
  /\ \E t, u \in Threads :
       /\ t # u
       /\ thr[t].req.Timestamp < thr[u].req.Timestamp
       /\ thr[t].opTime > thr[u].opTime
       /\ thr[t].opTime > requestDuration(newDeviceContext(dc.deviceConfig), thr[t].req)

\* C13: an operation whose underlying operation failed returns its error
\* status after exactly one call of Schedule.
ErrorStillScheduled ==
  \A t \in Threads :
    (op[t].pc = "returned" /\ op[t].status = "error") => op[t].calls = 1

\* C14: a read, write, fsync, allocate or release that has succeeded on a
\* handle from Open or from Create has made exactly one call of Schedule,
\* with a request that carries the path of the handle's file.
HandleOpsScheduledWithPath ==
  \A t \in Threads :
    (/\ op[t].pc = "returned"
     /\ op[t].status = "OK"
     /\ op[t].kind \in HandleKinds)
    => (op[t].calls = 1 /\ op[t].req.Path = op[t].handle.path)

\* C15: an intercepted operation that has succeeded went through start,
\* perform, schedule, sleep and return in this order, called Schedule once
\* with the timestamp start, the request kind of its operation and the bytes
\* transferred, and returned at start + the duration or later; and every
\* operation that has succeeded underneath does return.
requestType(kind) ==
  CASE kind = "read" -> ReadRequest
    [] kind = "write" -> WriteRequest
    [] kind = "release" -> CloseRequest
    [] kind = "allocate" -> AllocateRequest
    [] kind = "fsync" -> FsyncRequest
    [] OTHER -> MetadataRequest

intercepted(o) == o.handle.wrapped

StepsInOrder ==
  \A t \in Threads :
    (op[t].pc = "returned" /\ op[t].status = "OK" /\ intercepted(op[t]))
    => /\ op[t].steps = <<"start", "perform", "schedule", "sleep", "return">>
       /\ op[t].calls = 1
       /\ op[t].req.Timestamp = op[t].start
       /\ op[t].req.Type = requestType(op[t].kind)
       /\ op[t].req.Size = op[t].moved
       /\ op[t].wake >= op[t].start + op[t].opTime

AdapterStepsInOrder ==
  /\ []StepsInOrder
  /\ \A t \in Threads : op[t].pc = "waiting" ~> op[t].pc = "returned"

\* a read on an opened handle has slept out its seek and its transfer
AdapterStepsInOrderWitness ==
  \E t \in Threads :
    /\ op[t].pc = "returned"
    /\ op[t].status = "OK"
    /\ op[t].kind = "read"
    /\ op[t].moved > 0
    /\ op[t].opTime > 1
    /\ op[t].wake = op[t].start + op[t].opTime
    /\ started = MaxOps

\* C19 as stated: the callers enter the critical section of Schedule in the
\* order of their timestamps.
InTimestampOrder == entered.inOrder

\* C19: a caller in the critical section carries a timestamp that is not
\* earlier than that of any caller that had entered the critical section
\* when this caller sampled its start.
EnteredAfterSampling ==
  \A t \in Threads :
    op[t].pc = "locked" => op[t].req.Timestamp >= op[t].seen

\* a caller enters with an earlier timestamp than a caller that entered before
\* it, having sampled its start before that caller entered
EnteredAfterSamplingWitness ==
  \E t \in Threads :
    /\ op[t].pc = "locked"
    /\ op[t].req.Timestamp < entered.latest
    /\ op[t].seen = 0
    /\ ~entered.inOrder

\* C20: a thread whose call of Schedule has returned, asleep or not, does not
\* hold the scheduler's lock, and a sleeping thread has made its call: the
\* lock is held by threads inside Schedule only.
NoSleepUnderLock ==
  /\ \A t \in Threads :
       op[t].pc \in {"scheduled", "sleeping", "returned"} => lock # t
  /\ \A t \in Threads : op[t].pc = "sleeping" => op[t].calls = 1
  /\ lock # 0 => op[lock].pc = "locked"

\* one thread sleeps out its duration while another is inside Schedule
NoSleepUnderLockWitness ==
  \E t, u \in Threads :
    /\ op[t].pc = "sleeping"
    /\ op[t].wake > now
    /\ op[u].pc = "locked"
    /\ lock = u

\* C17: the scheduler exists, the filesystem is mounted or a request has been
\* scheduled only if the config file was read and parsed, every flag was
\* parsed, and the selected config with the flags applied passes Validate.
configError ==
  \/ main.args.file.status \in {"unreadable", "malformed"}
  \/ main.args.flag.kind = "malformed"
  \/ main.flagsHadError
  \/ main.selected = ""
  \/ ~Validate(main.configs[main.selected])

ValidatedBeforeScheduling ==
  (\/ main.scheduler
   \/ main.mounted
   \/ main.pc \in {"new", "mount", "serving"}
   \/ pc = "returned")
  => ~configError

\* a request is scheduled on a device whose config came from the file and
\* whose bandwidth came from the flag
ValidatedBeforeSchedulingWitness ==
  /\ pc = "returned"
  /\ main.pc = "serving"
  /\ main.selected # BuiltIn
  /\ main.args.flag.kind = "value"
  /\ main.args.file.entries[1].ReadBytesPerSecond = 0
  /\ Len(main.args.file.entries) = MaxEntries

\* C18: the merged set of configs always holds the built-in hdd7200rpm, every
\* config is kept under its own name, the entries loaded from the file have
\* names that differ from one another and from the built-in and are kept as
\* loaded, and startup goes on past the loading only when no entry of the
\* file repeated a name; an entry that does is fatal.
loadedEntries == 1..(main.next - 1)

beforeFlags == main.pc \in {"configFile", "load", "select", "flags"}

MergedSetUnique ==
  /\ BuiltIn \in DOMAIN main.configs
  /\ beforeFlags => main.configs[BuiltIn] = HDD7200RpmDeviceConfig
  /\ \A n \in DOMAIN main.configs : main.configs[n].Name = n
  /\ \A i \in loadedEntries :
       /\ main.args.file.entries[i].Name # BuiltIn
       /\ main.args.file.entries[i].Name \in DOMAIN main.configs
       /\ beforeFlags =>
            main.configs[main.args.file.entries[i].Name] = main.args.file.entries[i]
       /\ \A j \in loadedEntries :
            i # j => main.args.file.entries[i].Name # main.args.file.entries[j].Name
  /\ main.pc \notin {"configFile", "load", "fatal"}
       => main.next = Len(main.args.file.entries) + 1
  /\ main.fatal = "duplicate"
       => \/ main.args.file.entries[main.next].Name = BuiltIn
          \/ \E i \in loadedEntries :
               main.args.file.entries[i].Name = main.args.file.entries[main.next].Name

\* the last entry of the file repeats the name of the first with another
\* bandwidth: fatal, and the first is still in the set
MergedSetUniqueWitness ==
  /\ main.pc = "fatal"
  /\ main.fatal = "duplicate"
  /\ main.next = MaxEntries
  /\ main.args.file.entries[main.next].Name = main.args.file.entries[1].Name
  /\ main.args.file.entries[main.next] # main.args.file.entries[1]
  /\ main.configs[main.args.file.entries[1].Name] = main.args.file.entries[1]

\* C21: beyond the wait for the busy device, Schedule returns metadataOpTime
\* for METADATA and CLOSE; seek + size / allocateBytesPerSecond for ALLOCATE;
\* seek + size / readBytesPerSecond for READ; 0 for a fast WRITE and
\* seek + size / writeBytesPerSecond for a simulated one; for FSYNC 0 under
\* none, 10 x seekTime under dumb, and seekTime + the path's dirty bytes /
\* writeBytesPerSecond under writeback.
seek == computeSeekTime(pre, req)

DurationByKind ==
  Called =>
    LET config == pre.deviceConfig
        own == opTime - wait
    IN  /\ req.Type \in {MetadataRequest, CloseRequest} =>
             own = config.MetadataOpTime
        /\ req.Type = AllocateRequest =>
             own = seek + computeTimeFromThroughput(req.Size,
                                                    config.AllocateBytesPerSecond)
        /\ req.Type = ReadRequest =>
             own = seek + computeTimeFromThroughput(req.Size,
                                                    config.ReadBytesPerSecond)
        /\ (req.Type = WriteRequest /\ config.WriteStrategy = "fast") => own = 0
        /\ (req.Type = WriteRequest /\ config.WriteStrategy = "simulate") =>
             own = seek + computeTimeFromThroughput(req.Size,
                                                    config.WriteBytesPerSecond)
        /\ (req.Type = FsyncRequest /\ config.FsyncStrategy = "none") => own = 0
        /\ (req.Type = FsyncRequest /\ config.FsyncStrategy = "dumb") =>
             own = 10 * config.SeekTime
        /\ (req.Type = FsyncRequest /\ config.FsyncStrategy = "writeback") =>
             own = config.SeekTime +
                   computeTimeFromThroughput(
                     getUnwrittenBytes(pre.writeBackCache, req.Path),
                     config.WriteBytesPerSecond)

\* a fast WRITE that costs nothing, to a file other than the tracked one, on
\* a busy device whose cache holds dirty bytes
DurationByKindWitness ==
  /\ Called
  /\ req.Type = WriteRequest
  /\ req.Size > 0
  /\ pre.deviceConfig.WriteStrategy = "fast"
  /\ pre.lastAccessedFile # req.Path
  /\ totalBytes(pre.writeBackCache) > 0
  /\ wait > 0
  /\ opTime = wait

\* C22: a READ, ALLOCATE or simulated WRITE is charged seekTime on top of its
\* transfer exactly when its path is not lastAccessedFile, or its start lies
\* before firstUnseenByte, or its start lies seekWindow or more beyond
\* firstUnseenByte, and nothing on top otherwise; after a READ or simulated
\* WRITE lastAccessedFile is the request's path and firstUnseenByte its
\* start + size.
seeks(r) ==
  \/ r.Type \in {ReadRequest, AllocateRequest}
  \/ r.Type = WriteRequest /\ pre.deviceConfig.WriteStrategy = "simulate"

transferTime(r) ==
  CASE r.Type = ReadRequest -> ReadTime(pre.deviceConfig, r.Size)
    [] r.Type = WriteRequest -> WriteTime(pre.deviceConfig, r.Size)
    [] OTHER -> AllocateTime(pre.deviceConfig, r.Size)

seekRule ==
  \/ req.Path # pre.lastAccessedFile
  \/ req.Start < pre.firstUnseenByte
  \/ req.Start - pre.firstUnseenByte >= pre.deviceConfig.SeekWindow

SeekPenaltyRule ==
  (Called /\ seeks(req)) =>
    /\ seekRule => opTime = wait + pre.deviceConfig.SeekTime + transferTime(req)
    /\ ~seekRule => opTime = wait + transferTime(req)
    /\ req.Type # AllocateRequest =>
         /\ dc.lastAccessedFile = req.Path
         /\ dc.firstUnseenByte = req.Start + req.Size

\* a read that skips ahead in the tracked file, within the window: no seek
SeekPenaltyRuleWitness ==
  /\ Called
  /\ req.Type = ReadRequest
  /\ req.Size > 0
  /\ req.Path = pre.lastAccessedFile
  /\ req.Start > pre.firstUnseenByte
  /\ opTime = wait + transferTime(req)
  /\ dc.firstUnseenByte = req.Start + req.Size

\* C23 as stated: under every seekWindow, a READ, ALLOCATE or simulated WRITE
\* of lastAccessedFile that starts at firstUnseenByte is charged no seek.
atFirstUnseenByte ==
  /\ Called
  /\ seeks(req)
  /\ pre.lastAccessedFile # ""
  /\ req.Path = pre.lastAccessedFile
  /\ req.Start = pre.firstUnseenByte

SequentialAtFirstUnseenByte ==
  atFirstUnseenByte => opTime = wait + transferTime(req)

\* C23, amended: it is charged no seek when seekWindow > 0, and seekTime
\* when seekWindow = 0.
SequentialAtFirstUnseenByteInWindow ==
  atFirstUnseenByte =>
    opTime = wait + transferTime(req) +
             (IF pre.deviceConfig.SeekWindow > 0
              THEN 0 ELSE pre.deviceConfig.SeekTime)

\* a read that goes on where the read before it ended
SequentialAtFirstUnseenByteWitness ==
  /\ atFirstUnseenByte
  /\ req.Type = ReadRequest
  /\ req.Path # ""
  /\ req.Start > 0
  /\ req.Size > 0
  /\ pre.deviceConfig.SeekWindow > 0
  /\ opTime = wait + transferTime(req)

\* C24: with seekWindow = 0 every READ, ALLOCATE and simulated WRITE is
\* charged seekTime, whatever its path and its offset and whatever was
\* accessed before it.
NoWindowAlwaysSeeks ==
  (Called /\ seeks(req) /\ pre.deviceConfig.SeekWindow = 0) =>
    opTime = wait + pre.deviceConfig.SeekTime + transferTime(req)

\* a write that goes on in the tracked file where the access before it ended
NoWindowAlwaysSeeksWitness ==
  /\ Called
  /\ req.Type = WriteRequest
  /\ pre.deviceConfig.SeekWindow = 0
  /\ pre.lastAccessedFile = req.Path
  /\ req.Path # ""
  /\ pre.firstUnseenByte > 0
  /\ req.Start = pre.firstUnseenByte
  /\ opTime = wait + pre.deviceConfig.SeekTime + transferTime(req)

\* C25: while no file is tracked (on a fresh device and after the CLOSE of the
\* tracked file) every READ, simulated WRITE and ALLOCATE is charged
\* seekTime, the ALLOCATE without path and offset included.
SeeksWhenNothingTracked ==
  (/\ Called
   /\ seeks(req)
   /\ pre.lastAccessedFile = ""
   /\ pre.firstUnseenByte = 0)
  => opTime = wait + pre.deviceConfig.SeekTime + transferTime(req)

\* C26: with a write-back cache, a request that comes spare > 0 after
\* busyUntil (as the call finds it) has the cache drained by
\* writeBytesPerSecond x spare before its own effect: a WRITE's bytes are
\* added to what the drain left, a FSYNC or CLOSE clears its path in what the
\* drain left, and any other request leaves it as drained; with spare <= 0
\* nothing is drained.  A METADATA request that comes long enough after
\* busyUntil for all dirty bytes finds the cache drained to 0 and is delayed
\* by metadataOpTime.
otherPathsAsDrained ==
  \A p \in DOMAIN drained.unwrittenBytes :
    p # req.Path =>
      getUnwrittenBytes(dc.writeBackCache, p) = drained.unwrittenBytes[p]

IdleTimeDrain ==
  (Called /\ pre.writeBackCache.exists) =>
    /\ spare > 0 =>
         totalBytes(drained) =
           totalBytes(pre.writeBackCache) -
           Min(totalBytes(pre.writeBackCache),
               pre.deviceConfig.WriteBytesPerSecond * (req.Timestamp - pre.busyUntil))
    /\ spare <= 0 => drained = pre.writeBackCache
    /\ otherPathsAsDrained
    /\ req.Type = WriteRequest =>
         getUnwrittenBytes(dc.writeBackCache, req.Path) =
           getUnwrittenBytes(drained, req.Path) + req.Size
    /\ req.Type \in {FsyncRequest, CloseRequest} =>
         getUnwrittenBytes(dc.writeBackCache, req.Path) = 0
    /\ req.Type \in {ReadRequest, AllocateRequest, MetadataRequest} =>
         dc.writeBackCache = drained
    /\ (/\ req.Type = MetadataRequest
        /\ spare > 0
        /\ pre.deviceConfig.WriteBytesPerSecond * spare >=
             totalBytes(pre.writeBackCache))
       => /\ totalBytes(dc.writeBackCache) = 0
          /\ opTime = pre.deviceConfig.MetadataOpTime

\* a METADATA request after fast writes and idle time enough for their bytes
IdleTimeDrainWitness ==
  /\ Called
  /\ pre.writeBackCache.exists
  /\ pre.deviceConfig.WriteStrategy = "fast"
  /\ req.Type = MetadataRequest
  /\ spare > 0
  /\ totalBytes(pre.writeBackCache) > 1
  /\ totalBytes(dc.writeBackCache) = 0
  /\ opTime = pre.deviceConfig.MetadataOpTime

\* C27: the duration Schedule returns is busyUntil after the call less the
\* request's timestamp.
DelayReachesBusyUntil == Called => opTime = dc.busyUntil - req.Timestamp

\* C28: under the simulate write strategy, a WRITE leaves lastAccessedFile,
\* firstUnseenByte and the write-back cache as a READ of the same path, start
\* and size would have left them: the cache's dirty bytes are those the
\* idle-time drain left.
asRead == execute(pre, [req EXCEPT !.Type = ReadRequest])

SimulatedWriteAsRead ==
  (/\ Called
   /\ req.Type = WriteRequest
   /\ pre.deviceConfig.WriteStrategy = "simulate")
  => /\ dc.lastAccessedFile = asRead.lastAccessedFile
     /\ dc.firstUnseenByte = asRead.firstUnseenByte
     /\ \A p \in Paths :
          /\ getUnwrittenBytes(dc.writeBackCache, p) =
               getUnwrittenBytes(asRead.writeBackCache, p)
          /\ getUnwrittenBytes(dc.writeBackCache, p) =
               getUnwrittenBytes(drained, p)

\* C29: idle time does not bank.  The bytes all idle-time drains have written
\* back, that of the call at hand included, are no more than
\* writeBytesPerSecond x the time the device was idle.  The idle time a call
\* drains for begins at busyUntil, which no call leaves before its own
\* timestamp or before where it found it: it lies after every earlier WRITE.
\* A WRITE that comes after idle time adds its bytes to what the drain left.
drainedNow == totalBytes(pre.writeBackCache) - totalBytes(drained)

IdleTimeNotBanked ==
  /\ hist.unused >= 0
  /\ Called =>
       /\ hist.unused + pre.deviceConfig.WriteBytesPerSecond * Max(0, spare)
            - drainedNow >= 0
       /\ drainedNow > 0 => spare > 0
       /\ dc.busyUntil >= req.Timestamp
       /\ dc.busyUntil >= pre.busyUntil
       /\ req.Type = WriteRequest =>
            getUnwrittenBytes(dc.writeBackCache, req.Path) =
              getUnwrittenBytes(drained, req.Path) + req.Size

\* after idle time that went unused, dirty bytes are drained for the idle
\* time of the call at hand only, and some stay dirty
IdleTimeNotBankedWitness ==
  /\ Called
  /\ hist.unused > 0
  /\ spare > 0
  /\ drainedNow = pre.deviceConfig.WriteBytesPerSecond * spare
  /\ totalBytes(drained) > 0

\* C30: in every reachable state, and between the idle-time drain of a call
\* and the step of its request, every path of the write-back cache holds a
\* dirty-byte count >= 0.
nonNegative(wbc) ==
  wbc.exists => \A p \in DOMAIN wbc.unwrittenBytes : wbc.unwrittenBytes[p] >= 0

DirtyBytesNonNegative ==
  /\ nonNegative(dc.writeBackCache)
  /\ Called => nonNegative(drained)

\* the idle time of a call could have written back more bytes than the path
\* held, and the drain left the path at 0
DirtyBytesNonNegativeWitness ==
  /\ Called
  /\ spare > 0
  /\ \E p \in DOMAIN pre.writeBackCache.unwrittenBytes :
       /\ pre.writeBackCache.unwrittenBytes[p] > 0
       /\ pre.writeBackCache.unwrittenBytes[p] <
            pre.deviceConfig.WriteBytesPerSecond * spare
       /\ p \in DOMAIN drained.unwrittenBytes
       /\ drained.unwrittenBytes[p] = 0

\* C31: a request of kind OPEN is handled like METADATA: its own duration
\* (the delay less the wait for the busy device) is metadataOpTime, the
\* tracked file and position stay as they were, and the cache is as the
\* idle-time drain left it.
OpenLikeMetadata ==
  (Called /\ req.Type = OpenRequest) =>
    /\ opTime - wait = pre.deviceConfig.MetadataOpTime
    /\ dc.lastAccessedFile = pre.lastAccessedFile
    /\ dc.firstUnseenByte = pre.firstUnseenByte
    /\ dc.writeBackCache = drained

\* C32: METADATA, ALLOCATE and FSYNC requests, and a CLOSE of another path
\* than the tracked one, leave lastAccessedFile and firstUnseenByte as they
\* were; METADATA and ALLOCATE leave the cache as the idle-time drain left it.
keepsTracking ==
  \/ req.Type \in {MetadataRequest, AllocateRequest, FsyncRequest}
  \/ req.Type = CloseRequest /\ req.Path # pre.lastAccessedFile

TrackingFrame ==
  Called =>
    /\ keepsTracking =>
         /\ dc.lastAccessedFile = pre.lastAccessedFile
         /\ dc.firstUnseenByte = pre.firstUnseenByte
    /\ req.Type \in {MetadataRequest, AllocateRequest} =>
         dc.writeBackCache = drained

\* an ALLOCATE of a file with dirty bytes, elsewhere than at the position
\* tracked for another file
TrackingFrameWitness ==
  /\ Called
  /\ req.Type = AllocateRequest
  /\ pre.lastAccessedFile \notin {"", req.Path}
  /\ pre.firstUnseenByte > 0
  /\ req.Start + req.Size # pre.firstUnseenByte
  /\ getUnwrittenBytes(drained, req.Path) > 0

\* C33: whenever no file is tracked (lastAccessedFile is empty),
\* firstUnseenByte is 0; the READ and WRITE requests all name a file.
NothingTrackedAtZero ==
  dc.lastAccessedFile = "" => dc.firstUnseenByte = 0

\* the tracked file, read or written past offset 0, has just been closed, on
\* a device without a cache
NothingTrackedAtZeroWitness ==
  /\ Called
  /\ req.Type = CloseRequest
  /\ pre.lastAccessedFile = req.Path
  /\ pre.firstUnseenByte > 0
  /\ ~pre.writeBackCache.exists
  /\ dc.lastAccessedFile = ""

\* C34: in secure mode, a startup failure after the backing directory has
\* been moved to the secure path leaves the directory back at its original
\* path when the program exits.
StartupFailureRestores ==
  (secure.mainPc = "fatal" /\ secure.secureBackingDir # "") =>
    secure.original = "backing"

\* C35: in secure mode, once the process has ended after a shutdown, the
\* backing directory is at its original path and has been moved back at most
\* once, however the cleanup of the signal goroutine and that of func main
\* interleave.
ShutDown == secure.mainPc = "exited" \/ secure.sigPc = "exited"

ShutdownRestoresOnce ==
  (secure.secureMode /\ ShutDown) =>
    /\ secure.original = "backing"
    /\ secure.atSecure = "absent"
    /\ secure.restored <= 1

====
